---- MODULE Spec2Model ----
(***************************************************************************)
(* State-machine model of bybit_terminal's MainWindow (src/main_window.py):*)
(* the batched update dispatcher (_update_queue, _process_updates,         *)
(* _update_ui, _last_data), the positions views, the position commands    *)
(* (close_position, edit_position), the symbol selector with its filter    *)
(* timer, the stream callbacks, and the order commands.                    *)
(*                                                                         *)
(* Python values are encoded as follows.  A published value is an integer: *)
(* 0..MaxVal are numbers, NonNumeric stands for a value the float format   *)
(* specs reject (the exchange sends prices as text, e.g. "65000.5").       *)
(* A dict is a sequence of <<key, value>> pairs with distinct keys, in     *)
(* insertion order, which is the order Python iterates it in.  An optional *)
(* object (None or a dict) is a sequence of length 0 or 1.                 *)
(***************************************************************************)
EXTENDS Integers, Sequences, FiniteSets, TLC

VARIABLES
    update_queue,        \* self._update_queue: the buffered publishes (dicts)
    last_data,           \* self._last_data: topic -> last dispatched value
    handed,              \* history: topic -> the value its handler was last called for
    price_label,         \* self.price_label text
    balance_label,       \* self.balance_label text
    pm_positions,        \* what position_manager.get_positions() returns now
    om_orders,           \* what order_manager.get_orders() returns now
    positions_table,     \* rows of self.positions_table
    orders_table,        \* rows of self.orders_table
    chart,               \* last arguments of chart_widget.update_positions_and_orders
    has_selected,        \* hasattr(self, 'selected_position')
    selected_position,   \* self.selected_position: <<>> is None, <<p>> a position
    buttons_enabled,     \* close / SL-TP / multiple-TP buttons enabled
    positions_update_needed,  \* self._positions_update_needed
    orders_update_needed,     \* self._orders_update_needed
    current_symbol,      \* self.current_symbol: <<>> while the attribute is not set
    combo_text,          \* self.symbol_combo.currentText(), the text of its line edit
    combo_items,         \* the items of self.symbol_combo
    combo_index,         \* self.symbol_combo.currentIndex(), from 1; 0 is no item
    filter_timer,        \* self.filter_timer: time left to its timeout, or Inactive
    ws_open,             \* the stream connection is open
    ws_connecting,       \* the WebSocketManager is opening a connection
    quiet,               \* history: time since the line edit's text last changed
    runs,                \* history: runs of the filter since that change
    stale,               \* history: queue entries put before the last symbol switch
    op                   \* the handler that ran in the last step, with what it did

vars == <<update_queue, last_data, handed, price_label, balance_label, pm_positions,
          om_orders, positions_table, orders_table, chart, has_selected,
          selected_position, buttons_enabled, positions_update_needed,
          orders_update_needed, current_symbol, combo_text, combo_items,
          combo_index, filter_timer, ws_open, ws_connecting, quiet, runs, stale,
          op>>

\* the symbol selector, its filter timer and the stream
selector_vars == <<current_symbol, combo_text, combo_items, combo_index,
                   filter_timer, ws_open, ws_connecting, quiet, runs>>

(***************************************************************************)
(* Bounds of the model.                                                    *)
(***************************************************************************)
MaxVal == 1          \* published numbers are 0..MaxVal
MaxQueue == 2        \* publishes buffered between two timer ticks
MaxLevel == 1        \* take-profit / stop-loss prices are 1..MaxLevel
MaxOrders == 2       \* open orders the order manager reports
MaxLegs == 2         \* legs of a multiple take-profit
MaxText == 2         \* characters of a symbol and of a filter text
MaxCatalog == 2      \* symbols of an instrument list
MaxFrame == 3        \* characters of an inbound stream message

(***************************************************************************)
(* Values.                                                                 *)
(***************************************************************************)
NonNumeric == -1
FetchFailed == -2
None == -3

Topics == {"price", "positions", "orders", "balance"}
Numbers == 0..MaxVal
Values == Numbers \cup {NonNumeric}
IsNumber(v) == v \in Nat

\* bool(v) of a Python number or None: 0 and None are false.
Truthy(v) == v # 0 /\ v # None

\* the symbols the account can hold a position in, in the order of the list
SymbolOrder == <<"BTCUSDT">>
Symbols == {SymbolOrder[i] : i \in DOMAIN SymbolOrder}
\* position['size'] arrives as text
SizeTexts == {"0", "0.0", "1"}
NoPosition == "-"

\* self.available_symbols: the instrument list, sorted, as load_symbols of
\* setup_symbol_search left it
available_symbols == <<"BTCUSDT", "ETHUSDT">>

\* what the user types into the selector's line edit
Texts == {"", "btc", "USDT", "XRP", "ETHUSDT"}

\* text.upper()
Upper(t) == IF t = "btc" THEN "BTC" ELSE t

\* text in symbol, for the texts above and their upper-case forms
Contains(text, symbol) ==
    \/ text = ""
    \/ text = symbol
    \/ text = "USDT"
    \/ text = "BTC" /\ symbol = "BTCUSDT"

\* self.filter_timer.setInterval(300)
Interval == 300
\* filter_timer.isActive() is false
Inactive == -1

\* float(text)
Float(t) == CASE t = "0" -> 0 [] t = "0.0" -> 0 [] t = "1" -> 1

\* The positions list handed out by position_manager.get_positions(): one
\* record per symbol the manager holds, zero sizes included (which is why
\* update_positions_table has to skip them).
RECURSIVE PositionsFrom(_, _)
PositionsFrom(pm, i) ==
    IF i > Len(SymbolOrder) THEN <<>>
    ELSE LET s == SymbolOrder[i] IN
         (IF pm[s] = NoPosition THEN <<>> ELSE <<[symbol |-> s, size |-> pm[s]]>>)
         \o PositionsFrom(pm, i + 1)

get_positions == PositionsFrom(pm_positions, 1)

\* position_manager.get_position(symbol): None or the manager's record
get_position(s) ==
    IF pm_positions[s] = NoPosition THEN <<>>
    ELSE <<[symbol |-> s, size |-> pm_positions[s]]>>

get_orders == om_orders

(***************************************************************************)
(* Dicts in insertion order.                                               *)
(***************************************************************************)
HasKey(d, k) == \E i \in DOMAIN d : d[i][1] = k

\* d[k]
Lookup(d, k) == d[CHOOSE i \in DOMAIN d : d[i][1] = k][2]

\* d[k] = v
DictSet(d, k, v) ==
    IF HasKey(d, k)
    THEN [i \in DOMAIN d |-> IF d[i][1] = k THEN <<k, v>> ELSE d[i]]
    ELSE Append(d, <<k, v>>)

\* d.update(data)
RECURSIVE DictUpdate(_, _)
DictUpdate(d, data) ==
    IF data = <<>> THEN d
    ELSE DictUpdate(DictSet(d, Head(data)[1], Head(data)[2]), Tail(data))

\* the while loop of _process_updates: drain the queue into one dict
RECURSIVE Coalesce(_, _)
Coalesce(queue, updates) ==
    IF queue = <<>> THEN updates
    ELSE Coalesce(Tail(queue), DictUpdate(updates, Head(queue)))

(***************************************************************************)
(* The window's display state, threaded through the handlers as a record:  *)
(* calls logs the topic handlers invoked (<<topic, argument>>), raised     *)
(* tells that an exception left the handler that was running.              *)
(***************************************************************************)
NoArg == <<>>
Arg(v) == <<v>>

Gui == [last_data |-> last_data, price_label |-> price_label,
        balance_label |-> balance_label, positions_table |-> positions_table,
        orders_table |-> orders_table, chart |-> chart,
        calls |-> <<>>, raised |-> FALSE]

\* the rows update_positions_table inserts: zero sizes are skipped
RECURSIVE TableRows(_)
TableRows(positions) ==
    IF positions = <<>> THEN <<>>
    ELSE LET p == Head(positions) IN
         (IF Float(p.size) = 0 THEN <<>>
          ELSE <<[symbol |-> p.symbol, size |-> p.size, data |-> p]>>)
         \o TableRows(Tail(positions))

\* update_positions_table: the argument is ignored, the list is fetched
\* again; a failing fetch is logged and leaves the table as it was.
update_positions_table(g, env) ==
    IF env.pos_ok THEN [g EXCEPT !.positions_table = TableRows(get_positions)]
    ELSE g

\* the rows update_orders_table inserts: the seven texts of an order (the
\* symbol stands for them).  No item is given data for Qt.UserRole, and no
\* column holds the order's id; shows is history, the id of the order the
\* row was drawn from.
OrderRows(orders) ==
    [i \in DOMAIN orders |->
        [symbol |-> orders[i].symbol, data |-> None, shows |-> orders[i].orderId]]

update_orders_table(g, env) ==
    IF env.ord_ok THEN [g EXCEPT !.orders_table = OrderRows(get_orders)]
    ELSE g

\* update_chart_positions: the fetched lists go to the chart as they are
update_chart_positions(g, env) ==
    IF env.pos_ok /\ env.ord_ok
    THEN [g EXCEPT !.chart = [positions |-> get_positions, orders |-> get_orders]]
    ELSE g

\* f"{price:.4f}" raises for a value that is not a number.  The exception
\* reaches the Qt event loop; the model follows the runs in which the
\* application goes on (an excepthook is installed), the others end there.
_handle_price_update(g, price) ==
    IF IsNumber(price)
    THEN [g EXCEPT !.price_label = [fmt |-> "4f", val |-> price]]
    ELSE [g EXCEPT !.raised = TRUE]

_handle_positions_update(g, env) ==
    update_chart_positions(update_positions_table(g, env), env)

_handle_orders_update(g, env) ==
    update_chart_positions(update_orders_table(g, env), env)

\* f"{balance}" formats any value
_handle_balance_update(g, balance) ==
    [g EXCEPT !.balance_label = [fmt |-> "plain", val |-> balance]]

Widgets == {"price", "positions", "orders", "balance", "chart"}

\* the if/elif chain of _update_ui
Dispatch(g, widget_id, data, env) ==
    LET called == [g EXCEPT !.calls = Append(@,
                      <<widget_id, IF widget_id = "orders" THEN NoArg ELSE Arg(data)>>)]
    IN  CASE widget_id = "price" -> _handle_price_update(called, data)
          [] widget_id = "positions" -> _handle_positions_update(called, env)
          [] widget_id = "orders" -> _handle_orders_update(called, env)
          [] widget_id = "balance" -> _handle_balance_update(called, data)
          [] OTHER -> g

\* _update_ui: the loop over updates.items(), from item i on.  Nothing
\* catches a handler's exception: it ends the loop before the snapshot of
\* that topic is written and before the topics that follow are looked at.
RECURSIVE _update_ui(_, _, _, _)
_update_ui(g, updates, i, env) ==
    IF i > Len(updates) THEN g
    ELSE LET widget_id == updates[i][1]
             data == updates[i][2]
         IN  IF g.last_data[widget_id] # data
             THEN LET h == IF widget_id \in Widgets
                           THEN Dispatch(g, widget_id, data, env) ELSE g
                  IN  IF h.raised THEN h
                      ELSE _update_ui([h EXCEPT !.last_data[widget_id] = data],
                                      updates, i + 1, env)
             ELSE _update_ui(g, updates, i + 1, env)

\* _process_updates
_process_updates(g, queue, env) ==
    IF queue = <<>> THEN g
    ELSE _update_ui(g, Coalesce(queue, <<>>), 1, env)

\* update_balance: a falsy balance is not shown; an exception (of the fetch,
\* or of the .2f format) is logged
update_balance(g, balance) ==
    IF balance # FetchFailed /\ Truthy(balance) /\ IsNumber(balance)
    THEN [g EXCEPT !.balance_label = [fmt |-> "2f", val |-> balance]]
    ELSE g

(***************************************************************************)
(* Responses of the remote trading API as the handlers see them: the call  *)
(* raises (retMsg is the exception's text), returns nothing (None or {}),  *)
(* or returns a dict with or without retCode and retMsg.                   *)
(***************************************************************************)
NoCode == -1
ErrCode == 110001
NoMsg == "(no retMsg)"
\* the fallback text of close_position, and the titles of its two notices,
\* are rendered in English
UnknownError == "Unknown error"

Responses ==
    {[kind |-> "raise", retCode |-> NoCode, retMsg |-> "timed out"],
     [kind |-> "empty", retCode |-> NoCode, retMsg |-> NoMsg]}
    \cup [kind : {"dict"}, retCode : {0}, retMsg : {NoMsg, "OK"}]
    \cup [kind : {"dict"}, retCode : {ErrCode},
          retMsg : {NoMsg, "insufficient balance"}]
    \cup [kind : {"dict"}, retCode : {NoCode}, retMsg : {NoMsg}]

\* response and response.get('retCode') == 0
Succeeded(response) == response.kind = "dict" /\ response.retCode = 0

(***************************************************************************)
(* The record of the last step.                                            *)
(***************************************************************************)
InitialData == [t \in Topics |-> 0]

NoResponse == [kind |-> "none", retCode |-> NoCode, retMsg |-> NoMsg]

Idle == [name |-> "init", calls |-> <<>>, raised |-> FALSE, drained |-> <<>>,
         updates |-> <<>>, before |-> InitialData, requests |-> <<>>,
         notices |-> <<>>, response |-> NoResponse, tp |-> None, sl |-> None,
         accepted |-> FALSE, steps |-> <<>>, sent |-> <<>>, search |-> "",
         stale |-> 0, row |-> 0, reports |-> <<>>, legs |-> <<>>,
         order_id |-> None, catalog |-> <<>>, typed |-> <<>>,
         filtered |-> <<>>, message |-> <<>>, logged |-> <<>>,
         after_dropped |-> FALSE]

Did(name) == [Idle EXCEPT !.name = name]

Show(g) ==
    /\ last_data' = g.last_data
    /\ price_label' = g.price_label
    /\ balance_label' = g.balance_label
    /\ positions_table' = g.positions_table
    /\ orders_table' = g.orders_table
    /\ chart' = g.chart

(***************************************************************************)
(* Construction: __init__, _create_top_panel.  {} and 0 of _last_data are  *)
(* both the value 0 here: a first publish of the empty value is unchanged. *)
(* setup_symbol_search has loaded the catalog into the selector: the first *)
(* item became the current one, which changed the line edit's text, so     *)
(* on_symbol_selected ran for it and the filter timer was started.         *)
(* ws_manager.start() has told the manager to connect.                     *)
(***************************************************************************)
Init ==
    /\ update_queue = <<>>
    /\ last_data = InitialData
    /\ handed = InitialData
    /\ price_label = [fmt |-> "init", val |-> 0]
    /\ balance_label = [fmt |-> "plain", val |-> 0]
    /\ pm_positions = [s \in Symbols |-> NoPosition]
    /\ om_orders = <<>>
    /\ positions_table = <<>>
    /\ orders_table = <<>>
    /\ chart = [positions |-> <<>>, orders |-> <<>>]
    /\ has_selected = FALSE
    /\ selected_position = <<>>
    /\ buttons_enabled = FALSE
    /\ positions_update_needed = FALSE
    /\ orders_update_needed = FALSE
    /\ current_symbol = <<available_symbols[1]>>
    /\ combo_text = available_symbols[1]
    /\ combo_items = available_symbols
    /\ combo_index = 1
    /\ filter_timer = Interval
    /\ ws_open = FALSE
    /\ ws_connecting = TRUE
    /\ quiet = 0
    /\ runs = 0
    /\ stale = 0
    /\ op = Idle

(***************************************************************************)
(* A producer puts {topic: value} on the queue.                            *)
(***************************************************************************)
Publish(topic, value) ==
    /\ Len(update_queue) < MaxQueue
    /\ update_queue' = Append(update_queue, <<<<topic, value>>>>)
    /\ op' = Did("publish")
    /\ UNCHANGED <<selector_vars, stale,
                   last_data, handed, price_label, balance_label, pm_positions, om_orders,
                   positions_table, orders_table, chart, has_selected,
                   selected_position, buttons_enabled, positions_update_needed,
                   orders_update_needed>>

(***************************************************************************)
(* self.timer fires: _process_updates, then update_balance (the two slots  *)
(* of its timeout signal, in connection order).                            *)
(***************************************************************************)
Fetches == [pos_ok : BOOLEAN, ord_ok : BOOLEAN]
BalanceResults == Values \cup {FetchFailed}

TimerTick(env, balance) ==
    LET flushed == _process_updates(Gui, update_queue, env)
        g == update_balance(flushed, balance)
    IN  /\ Show(g)
        /\ update_queue' = <<>>
        /\ op' = [Did("timer") EXCEPT !.calls = g.calls, !.raised = g.raised,
                         !.drained = update_queue,
                         !.updates = Coalesce(update_queue, <<>>),
                         !.before = last_data, !.stale = stale]
        /\ handed' = [t \in Topics |->
                          IF \E i \in DOMAIN g.calls : g.calls[i][1] = t
                          THEN Lookup(Coalesce(update_queue, <<>>), t)
                          ELSE handed[t]]
        /\ stale' = 0
        /\ UNCHANGED <<selector_vars, pm_positions, om_orders, has_selected,
                       selected_position, buttons_enabled,
                       positions_update_needed, orders_update_needed>>

(***************************************************************************)
(* The exchange changes what the position manager reports for a symbol.    *)
(***************************************************************************)
PositionsChange(s, size) ==
    /\ pm_positions[s] # size
    /\ pm_positions' = [pm_positions EXCEPT ![s] = size]
    /\ op' = Did("exchange")
    /\ UNCHANGED <<selector_vars, stale,
                   update_queue, last_data, handed, price_label, balance_label, om_orders,
                   positions_table, orders_table, chart, has_selected,
                   selected_position, buttons_enabled, positions_update_needed,
                   orders_update_needed>>

(***************************************************************************)
(* self.update_timer fires: update_ui.  An exception of update_all, of the *)
(* get_positions() that is evaluated as the argument of                    *)
(* update_positions_table, or of the balance fetch is caught by the        *)
(* handler's own try, which ends the handler there.                        *)
(***************************************************************************)
update_ui(g, all_ok, env, balance) ==
    IF ~all_ok \/ ~env.pos_ok THEN g
    ELSE update_balance(
             update_chart_positions(
                 update_orders_table(update_positions_table(g, env), env), env),
             balance)

PollTick(all_ok, env, balance) ==
    /\ Show(update_ui(Gui, all_ok, env, balance))
    /\ op' = Did("update_ui")
    /\ UNCHANGED <<selector_vars, stale,
                   handed, update_queue, pm_positions, om_orders, has_selected,
                   selected_position, buttons_enabled, positions_update_needed,
                   orders_update_needed>>

(***************************************************************************)
(* A click on a row of the positions table: handle_position_selection.     *)
(* reset_position_selection and update_position_buttons_state are inlined. *)
(***************************************************************************)
handle_position_selection(row, ok) ==
    LET symbol == positions_table[row].symbol
        position == IF ok THEN get_position(symbol) ELSE <<>>
    IN  /\ has_selected' = TRUE
        /\ selected_position' = position
        /\ buttons_enabled' = (position # <<>>)

SelectPosition(row, ok) ==
    /\ handle_position_selection(row, ok)
    /\ op' = Did("handle_position_selection")
    /\ UNCHANGED <<selector_vars, stale,
                   update_queue, last_data, handed, price_label, balance_label,
                   pm_positions, om_orders, positions_table, orders_table, chart,
                   positions_update_needed, orders_update_needed>>

(***************************************************************************)
(* close_position(symbol, size): what it sends, what it shows, and whether *)
(* it sets the two refresh flags.                                          *)
(***************************************************************************)
Notice(title, text) == [title |-> title, text |-> text]

\* a close_position that sends the order a second time when it failed
close_position_retrying(symbol, size, response) ==
    LET request == [api |-> "close_position", symbol |-> symbol, size |-> size]
    IN  IF response.kind = "dict" /\ response.retCode = 0
        THEN [requests |-> <<request>>, needed |-> TRUE,
              notices |-> <<Notice("Success", symbol)>>]
        ELSE [requests |-> <<request, request>>, needed |-> FALSE,
              notices |-> <<Notice("Error", response.retMsg)>>]

close_position(symbol, size, response) ==
    LET request == [api |-> "close_position", symbol |-> symbol, size |-> size]
        error_msg == IF response.kind = "empty" \/ response.retMsg = NoMsg
                     THEN UnknownError ELSE response.retMsg
    IN  IF response.kind = "raise"
        THEN [requests |-> <<request>>, needed |-> FALSE,
              notices |-> <<Notice("Error", response.retMsg)>>]
        ELSE IF response.kind = "dict" /\ response.retCode = 0
        THEN [requests |-> <<request>>, needed |-> TRUE,
              notices |-> <<Notice("Success", symbol)>>]
        ELSE [requests |-> <<request>>, needed |-> FALSE,
              notices |-> <<Notice("Error", error_msg)>>]

Close(name, symbol, size, response) ==
    LET r == close_position(symbol, size, response)
    IN  /\ positions_update_needed' = (positions_update_needed \/ r.needed)
        /\ orders_update_needed' = (orders_update_needed \/ r.needed)
        /\ op' = [Did(name) EXCEPT !.requests = r.requests,
                      !.notices = r.notices, !.response = response]
        /\ UNCHANGED <<selector_vars, stale,
                   update_queue, last_data, handed, price_label, balance_label,
                       pm_positions, om_orders, positions_table, orders_table,
                       chart, has_selected, selected_position, buttons_enabled>>

\* the close button's lambda: the size is that of the selected position
CloseButton(response) ==
    /\ buttons_enabled
    /\ has_selected /\ selected_position # <<>>
    /\ Close("close_button", selected_position[1].symbol,
             Float(selected_position[1].size), response)

\* show_position_menu: symbol and size are read from the row's cells
CloseFromMenu(row, response) ==
    Close("close_menu", positions_table[row].symbol,
          Float(positions_table[row].size), response)

(***************************************************************************)
(* edit_position(index): a double click on a row of the positions table    *)
(* opens the SL/TP dialog for the position stored in the row; on accept    *)
(* the levels go to set_trading_stop.  Of the two definitions of           *)
(* edit_position in the class the later one is the method.                 *)
(***************************************************************************)
Levels == {None} \cup 0..MaxLevel

\* params built with "is not None" tests: a level of 0 is sent
TradingStopParams_NotNone(symbol, tp, sl) ==
    LET keys == {"category", "symbol", "positionIdx"}
                \cup (IF tp # None THEN {"takeProfit"} ELSE {})
                \cup (IF sl # None THEN {"stopLoss"} ELSE {})
    IN  [k \in keys |->
            CASE k = "category" -> "linear"
              [] k = "symbol" -> symbol
              [] k = "positionIdx" -> "0"
              [] k = "takeProfit" -> ToString(tp)
              [] k = "stopLoss" -> ToString(sl)]

\* the params dict of the set_trading_stop call
TradingStopParams(symbol, tp, sl) ==
    LET keys == {"category", "symbol", "positionIdx"}
                \cup (IF Truthy(tp) THEN {"takeProfit"} ELSE {})
                \cup (IF Truthy(sl) THEN {"stopLoss"} ELSE {})
    IN  [k \in keys |->
            CASE k = "category" -> "linear"
              [] k = "symbol" -> symbol
              [] k = "positionIdx" -> "0"
              [] k = "takeProfit" -> ToString(tp)
              [] k = "stopLoss" -> ToString(sl)]

\* error_handler.handle_bybit_error(response): a strict handler raises for
\* anything but a dict with retCode 0, a lenient one only reports it
handle_bybit_error(response, strict) ==
    strict /\ ~(response.kind = "dict" /\ response.retCode = 0)

\* self.update_positions(): the class defines no such method, the call
\* raises AttributeError
update_positions(g) == [g EXCEPT !.raised = TRUE]

\* except Exception: the error is logged
Caught(g, before) == IF g.raised THEN before ELSE g

\* an edit_position that draws the table and the chart again whatever the
\* response was, as edit_position_sl_tp does after its dialog
edit_position_refreshing(g, response, strict) ==
    LET all == [pos_ok |-> TRUE, ord_ok |-> TRUE]
    IN  update_chart_positions(update_positions_table(g, all), all)

\* the try block of edit_position after the dialog was accepted
edit_position(g, response, strict) ==
    IF response.kind = "raise" THEN g
    ELSE IF handle_bybit_error(response, strict) THEN g
    ELSE Caught(update_positions(g), g)

\* the dialog is accepted with the levels tp and sl
EditPosition(row, tp, sl, response, strict) ==
    LET position == positions_table[row].data
        params == TradingStopParams(position.symbol, tp, sl)
    IN  /\ Show(edit_position(Gui, response, strict))
        /\ op' = [Did("edit_position") EXCEPT
                      !.accepted = TRUE, !.tp = tp, !.sl = sl,
                      !.response = response,
                      !.requests = <<[api |-> "set_trading_stop",
                                      params |-> params]>>]
        /\ UNCHANGED <<selector_vars, stale,
                   handed, update_queue, pm_positions, om_orders, has_selected,
                       selected_position, buttons_enabled,
                       positions_update_needed, orders_update_needed>>

\* the dialog is dismissed
EditPositionCancelled(row) ==
    /\ op' = Did("edit_position")
    /\ UNCHANGED <<selector_vars, stale,
                   update_queue, last_data, handed, price_label, balance_label,
                   pm_positions, om_orders, positions_table, orders_table, chart,
                   has_selected, selected_position, buttons_enabled,
                   positions_update_needed, orders_update_needed>>

(***************************************************************************)
(* edit_position_sl_tp(symbol): the SL/TP button.  The dialog is opened    *)
(* for the manager's current position; on accept the table and the chart   *)
(* are drawn again.  No remote call is made here.                          *)
(***************************************************************************)
edit_position_sl_tp(g, symbol, ok, accepted, env) ==
    IF ok /\ get_position(symbol) # <<>> /\ accepted /\ env.pos_ok
    THEN update_chart_positions(update_positions_table(g, env), env)
    ELSE g

SlTpButton(ok, accepted, env) ==
    /\ buttons_enabled
    /\ has_selected /\ selected_position # <<>>
    /\ Show(edit_position_sl_tp(Gui, selected_position[1].symbol, ok, accepted, env))
    /\ op' = Did("edit_position_sl_tp")
    /\ UNCHANGED <<selector_vars, stale,
                   handed, update_queue, pm_positions, om_orders, has_selected,
                   selected_position, buttons_enabled, positions_update_needed,
                   orders_update_needed>>

(***************************************************************************)
(* The symbol selector (self.symbol_combo of _create_top_panel, editable)  *)
(* and what is connected to it: currentTextChanged -> on_symbol_selected,  *)
(* lineEdit().textChanged -> filter_timer.start(), filter_timer.timeout -> *)
(* filter_symbols.  The combo box and the timer made in __init__, with     *)
(* start_filter_timer and perform_filter on them, are replaced before the  *)
(* window is shown and get no events.                                      *)
(***************************************************************************)
\* the variables of the window proper
window_vars == <<update_queue, last_data, handed, price_label, balance_label,
                 pm_positions, om_orders, positions_table, orders_table, chart,
                 has_selected, selected_position, buttons_enabled,
                 positions_update_needed, orders_update_needed>>

\* the calls on_symbol_selected makes before self.update_position_info()
SymbolSteps == <<"config.save_window_settings", "data_manager.change_symbol",
                 "position_manager.change_symbol", "order_manager.change_symbol">>

\* on_symbol_selected(symbol): an empty text is ignored.  The class defines
\* no update_position_info: the call raises AttributeError, and
\* update_orders_table, which follows it, is not reached.
on_symbol_selected(current, symbol) ==
    IF symbol = ""
    THEN [current_symbol |-> current, steps |-> <<>>, raised |-> FALSE]
    ELSE [current_symbol |-> <<symbol>>, steps |-> SymbolSteps, raised |-> TRUE]

\* a start() that leaves a running timer alone
filter_timer_start_if_idle(timer) == IF timer = Inactive THEN Interval ELSE timer

\* self.filter_timer.start(): a running timer is stopped and started again
filter_timer_start(timer) == Interval

Selector == [current_symbol |-> current_symbol, combo_text |-> combo_text,
             filter_timer |-> filter_timer, quiet |-> quiet, runs |-> runs,
             stale |-> stale, steps |-> <<>>, raised |-> FALSE]

\* the line edit's text becomes text: when that is a change, textChanged
\* and currentTextChanged are emitted and their slots run
setText(sel, text) ==
    IF text = sel.combo_text THEN sel
    ELSE LET r == on_symbol_selected(sel.current_symbol, text)
         IN  [sel EXCEPT !.combo_text = text,
                         !.current_symbol = r.current_symbol,
                         !.steps = @ \o r.steps,
                         !.raised = @ \/ r.raised,
                         !.filter_timer = filter_timer_start(@),
                         !.quiet = 0,
                         !.runs = 0,
                         !.stale = IF r.current_symbol # sel.current_symbol
                                   THEN Len(update_queue) ELSE @]

ShowSelector(sel) ==
    /\ current_symbol' = sel.current_symbol
    /\ combo_text' = sel.combo_text
    /\ filter_timer' = sel.filter_timer
    /\ quiet' = sel.quiet
    /\ runs' = sel.runs
    /\ stale' = sel.stale

\* the user edits the text of the selector
TypeText(text) ==
    LET sel == setText(Selector, text)
    IN  /\ text # combo_text
        /\ ShowSelector(sel)
        /\ op' = [Did("text_changed") EXCEPT !.steps = sel.steps,
                                             !.raised = sel.raised]
        /\ UNCHANGED <<window_vars, combo_items, combo_index, ws_open,
                       ws_connecting>>

\* the user picks item i of the selector's list
SelectItem(i) ==
    LET sel == setText(Selector, combo_items[i])
    IN  /\ i # combo_index
        /\ combo_index' = i
        /\ ShowSelector(sel)
        /\ op' = [Did("item_selected") EXCEPT !.steps = sel.steps,
                                              !.raised = sel.raised]
        /\ UNCHANGED <<window_vars, combo_items, ws_open, ws_connecting>>

\* time passes, up to the timeout of a running filter timer
Delays == {Interval \div 3, 2 * (Interval \div 3), Interval}

Elapse(d) ==
    /\ filter_timer = Inactive \/ d <= filter_timer
    /\ filter_timer' = IF filter_timer = Inactive THEN Inactive ELSE filter_timer - d
    /\ quiet' = IF quiet + d > Interval THEN Interval ELSE quiet + d
    /\ op' = Did("elapse")
    /\ UNCHANGED <<window_vars, current_symbol, combo_text, combo_items,
                   combo_index, ws_open, ws_connecting, runs, stale>>

\* [symbol for symbol in self.available_symbols if search_text in symbol]
RECURSIVE FilterSymbols(_, _)
FilterSymbols(symbols, search_text) ==
    IF symbols = <<>> THEN <<>>
    ELSE (IF Contains(search_text, Head(symbols)) THEN <<Head(symbols)>> ELSE <<>>)
         \o FilterSymbols(Tail(symbols), search_text)

\* filter_timer times out (single shot): filter_symbols.  clear() leaves no
\* current item, which empties the line edit when there was one; addItems()
\* on the empty box makes the first item the current one and puts its text
\* into the line edit.  Both are changes of the text like the user's.
FilterTimeout ==
    LET search_text == Upper(combo_text)
        filtered_symbols == FilterSymbols(available_symbols, search_text)
        fired == [Selector EXCEPT !.filter_timer = Inactive, !.runs = @ + 1]
        cleared == IF combo_index # 0 THEN setText(fired, "") ELSE fired
        added == IF filtered_symbols # <<>>
                 THEN setText(cleared, filtered_symbols[1]) ELSE cleared
    IN  /\ filter_timer = 0
        /\ ShowSelector(added)
        /\ combo_items' = filtered_symbols
        /\ combo_index' = IF filtered_symbols # <<>> THEN 1 ELSE 0
        /\ op' = [Did("filter_symbols") EXCEPT !.search = search_text,
                                               !.steps = added.steps,
                                               !.raised = added.raised]
        /\ UNCHANGED <<window_vars, ws_open, ws_connecting>>

(***************************************************************************)
(* The stream: the callbacks the WebSocketManager is given.                *)
(***************************************************************************)
\* the message on_open serializes and sends
SubscribeMessage(symbol) == [op |-> "subscribe", args |-> <<"tickers." \o symbol>>]

\* the connection opens: on_open
on_open ==
    /\ ~ws_open
    /\ ws_open' = TRUE
    /\ ws_connecting' = FALSE
    /\ op' = [Did("on_open") EXCEPT !.sent = <<SubscribeMessage(combo_text)>>]
    /\ UNCHANGED <<window_vars, current_symbol, combo_text, combo_items,
                   combo_index, filter_timer, quiet, runs, stale>>

\* the connection is closed: on_close logs it
on_close ==
    /\ ws_open
    /\ ws_open' = FALSE
    /\ op' = Did("on_close")
    /\ UNCHANGED <<window_vars, current_symbol, combo_text, combo_items,
                   combo_index, filter_timer, ws_connecting, quiet, runs,
                   stale>>

(***************************************************************************)
(* Orders.  The exchange opens and closes orders; order_manager            *)
(* .get_orders() reports the open ones.                                    *)
(***************************************************************************)
OrderIds == 1..MaxOrders
Order(symbol, id) == [symbol |-> symbol, orderId |-> id]
OpenIds == {om_orders[i].orderId : i \in DOMAIN om_orders}
\* the id the exchange gives the next order
NextId(orders) ==
    LET used == {orders[i].orderId : i \in DOMAIN orders}
    IN  CHOOSE id \in OrderIds \ used : \A other \in OrderIds \ used : id <= other

RECURSIVE Without(_, _)
Without(orders, id) ==
    IF orders = <<>> THEN <<>>
    ELSE (IF Head(orders).orderId = id THEN <<>> ELSE <<Head(orders)>>)
         \o Without(Tail(orders), id)

\* an order is opened from elsewhere, or one is filled or cancelled there
OrderOpened(symbol) ==
    /\ Len(om_orders) < MaxOrders
    /\ om_orders' = Append(om_orders, Order(symbol, NextId(om_orders)))
    /\ op' = Did("exchange")
    /\ UNCHANGED <<selector_vars, stale, update_queue, last_data, handed,
                   price_label, balance_label, pm_positions, positions_table,
                   orders_table, chart, has_selected, selected_position,
                   buttons_enabled, positions_update_needed,
                   orders_update_needed>>

OrderClosed(id) ==
    /\ id \in OpenIds
    /\ om_orders' = Without(om_orders, id)
    /\ op' = Did("exchange")
    /\ UNCHANGED <<selector_vars, stale, update_queue, last_data, handed,
                   price_label, balance_label, pm_positions, positions_table,
                   orders_table, chart, has_selected, selected_position,
                   buttons_enabled, positions_update_needed,
                   orders_update_needed>>

\* self.refresh_data(): the class defines no such method, the call raises
\* AttributeError
refresh_data(g) == [g EXCEPT !.raised = TRUE]
NoRefreshData == "'MainWindow' object has no attribute 'refresh_data'"

\* the dialogs of src/dialogs submit to the session themselves: one request
\* when the user confirms, accepted when the response's code is 0, the
\* response's message shown otherwise
SubmitDialog(request, submitted, response) ==
    IF ~submitted
    THEN [requests |-> <<>>, accepted |-> FALSE, notices |-> <<>>]
    ELSE [requests |-> <<request>>, accepted |-> Succeeded(response),
          notices |-> IF Succeeded(response) THEN <<>>
                      ELSE <<Notice("Error", response.retMsg)>>]

\* what follows dialog.exec_() in show_order_dialog, edit_order and
\* show_multiple_tp_window: refresh_data() on Accepted, and the handler's
\* except branch, which logs and shows QMessageBox.critical
AfterDialog(g, accepted) ==
    LET refreshed == IF accepted THEN refresh_data(g) ELSE g
    IN  [gui |-> Caught(refreshed, g),
         notices |-> IF refreshed.raised THEN <<Notice("Error", NoRefreshData)>>
                     ELSE <<>>]

\* show_order_dialog(side): the Buy and Sell buttons
show_order_dialog(side, submitted, response) ==
    LET symbol == combo_text
        d == SubmitDialog([api |-> "place_order", symbol |-> symbol, side |-> side],
                          submitted, response)
        after == AfterDialog(Gui, d.accepted)
    IN  /\ d.accepted => Len(om_orders) < MaxOrders
        /\ om_orders' = IF d.accepted
                        THEN Append(om_orders, Order(symbol, NextId(om_orders)))
                        ELSE om_orders
        /\ Show(after.gui)
        /\ op' = [Did("show_order_dialog") EXCEPT
                      !.requests = d.requests, !.accepted = d.accepted,
                      !.response = IF submitted THEN response ELSE NoResponse,
                      !.notices = d.notices \o after.notices]
        /\ UNCHANGED <<selector_vars, stale, handed, update_queue, pm_positions,
                       has_selected, selected_position, buttons_enabled,
                       positions_update_needed, orders_update_needed>>

\* order_manager.get_order(symbol, order_id): None or the order of that id
get_order(symbol, order_id) ==
    LET found == {i \in DOMAIN om_orders :
                     om_orders[i].symbol = symbol /\ om_orders[i].orderId = order_id}
    IN  IF found = {} THEN <<>> ELSE <<om_orders[CHOOSE i \in found : TRUE]>>

\* show_order_menu on a row of the orders table: the symbol is the text of
\* the row's first item, the order id that item's data for Qt.UserRole
MenuOrder(row) == [symbol |-> orders_table[row].symbol, order_id |-> orders_table[row].data]

\* "cancel": self.cancel_order(symbol, order_id); the class defines no
\* cancel_order, the lambda raises AttributeError
OrderMenuCancel(row) ==
    /\ op' = [Did("cancel_order") EXCEPT !.row = row, !.raised = TRUE,
                  !.order_id = MenuOrder(row).order_id]
    /\ UNCHANGED <<selector_vars, stale, window_vars>>

\* "edit": edit_order(symbol, order_id)
edit_order(symbol, order_id, ok, submitted, response) ==
    LET order == get_order(symbol, order_id)
        d == IF ok /\ order # <<>>
             THEN SubmitDialog([api |-> "amend_order", symbol |-> symbol,
                                orderId |-> order[1].orderId], submitted, response)
             ELSE SubmitDialog(<<>>, FALSE, response)
        after == AfterDialog(Gui, d.accepted)
    IN  [gui |-> after.gui, requests |-> d.requests, accepted |-> d.accepted,
         notices |-> IF ok THEN d.notices \o after.notices
                     ELSE <<Notice("Error", "timed out")>>]

OrderMenuEdit(row, ok, submitted, response) ==
    LET m == MenuOrder(row)
        r == edit_order(m.symbol, m.order_id, ok, submitted, response)
    IN  /\ Show(r.gui)
        /\ op' = [Did("edit_order") EXCEPT !.row = row, !.order_id = m.order_id,
                      !.requests = r.requests, !.accepted = r.accepted,
                      !.notices = r.notices,
                      !.response = IF r.requests # <<>> THEN response ELSE NoResponse]
        /\ UNCHANGED <<selector_vars, stale, handed, update_queue, pm_positions,
                       om_orders, has_selected, selected_position,
                       buttons_enabled, positions_update_needed,
                       orders_update_needed>>

(***************************************************************************)
(* show_multiple_tp_window(symbol, size).  MultipleTpDialog places one     *)
(* order per leg and reports each leg's outcome; the legs the exchange     *)
(* took are open orders from then on.                                      *)
(***************************************************************************)
LegResponses == {r \in Responses : r.kind = "dict" /\ r.retMsg # NoMsg}
LegSeqs == UNION {[1..k -> LegResponses] : k \in 1..MaxLegs}

RECURSIVE PlaceLegs(_, _, _, _)
PlaceLegs(symbol, legs, i, orders) ==
    IF i > Len(legs) THEN orders
    ELSE PlaceLegs(symbol, legs, i + 1,
                   IF Succeeded(legs[i])
                   THEN Append(orders, Order(symbol, NextId(orders))) ELSE orders)

MultipleTpDialog(symbol, size, legs) ==
    [requests |-> [i \in DOMAIN legs |->
                      [api |-> "place_order", symbol |-> symbol, leg |-> i]],
     reports |-> [i \in DOMAIN legs |->
                     [leg |-> i, ok |-> Succeeded(legs[i]),
                      message |-> legs[i].retMsg]]]

show_multiple_tp_window(symbol, size, legs, accepted) ==
    LET d == MultipleTpDialog(symbol, size, legs)
        after == AfterDialog(Gui, accepted)
        taken == Cardinality({i \in DOMAIN legs : Succeeded(legs[i])})
    IN  /\ Len(om_orders) + taken <= MaxOrders
        /\ om_orders' = PlaceLegs(symbol, legs, 1, om_orders)
        /\ Show(after.gui)
        /\ op' = [Did("show_multiple_tp_window") EXCEPT
                      !.legs = legs, !.requests = d.requests,
                      !.reports = d.reports, !.accepted = accepted,
                      !.notices = after.notices]
        /\ UNCHANGED <<selector_vars, stale, handed, update_queue, pm_positions,
                       has_selected, selected_position, buttons_enabled,
                       positions_update_needed, orders_update_needed>>

\* show_position_menu: symbol and size are read from the row's cells
MultipleTpFromMenu(row, legs, accepted) ==
    show_multiple_tp_window(positions_table[row].symbol,
                            Float(positions_table[row].size), legs, accepted)

(***************************************************************************)
(* The catalog and its filter as functions of the instrument list and the  *)
(* text: load_symbols and filter_symbols of setup_symbol_search, with      *)
(* strings as sequences of characters.                                     *)
(***************************************************************************)
Letters == {"A", "B", "a"}

\* ord(c)
Ord(c) == CASE c = "A" -> 65 [] c = "B" -> 66 [] c = "a" -> 97

\* c.upper()
UpperChar(c) == IF c = "a" THEN "A" ELSE c

\* text.upper()
upper(text) == [i \in DOMAIN text |-> UpperChar(text[i])]

\* search_text in symbol
IsIn(search_text, symbol) ==
    \E k \in 0..(Len(symbol) - Len(search_text)) :
        SubSeq(symbol, k + 1, k + Len(search_text)) = search_text

\* s < t of two strings
RECURSIVE StrLess(_, _)
StrLess(s, t) ==
    IF t = <<>> THEN FALSE
    ELSE IF s = <<>> THEN TRUE
    ELSE IF Head(s) = Head(t) THEN StrLess(Tail(s), Tail(t))
    ELSE Ord(Head(s)) < Ord(Head(t))

\* self.available_symbols.sort()
RECURSIVE InsertSorted(_, _)
InsertSorted(sorted, symbol) ==
    IF sorted = <<>> THEN <<symbol>>
    ELSE IF StrLess(symbol, Head(sorted)) THEN <<symbol>> \o sorted
    ELSE <<Head(sorted)>> \o InsertSorted(Tail(sorted), symbol)

RECURSIVE SortSymbols(_)
SortSymbols(list) ==
    IF list = <<>> THEN <<>>
    ELSE InsertSorted(SortSymbols(Tail(list)), Head(list))

\* [symbol for symbol in self.available_symbols if search_text in symbol]
RECURSIVE SymbolsWith(_, _)
SymbolsWith(symbols, search_text) ==
    IF symbols = <<>> THEN <<>>
    ELSE (IF IsIn(search_text, Head(symbols)) THEN <<Head(symbols)>> ELSE <<>>)
         \o SymbolsWith(Tail(symbols), search_text)

\* filter_symbols: the list it puts into the combo box
filter_symbols(symbols, text) == SymbolsWith(symbols, upper(text))

Strings(n) == UNION {[1..k -> Letters] : k \in 0..n}
SymbolNames == Strings(MaxText) \ {<<>>}
\* the instrument lists get_instruments_info returns: distinct symbols
InstrumentLists ==
    {list \in UNION {[1..k -> SymbolNames] : k \in 0..MaxCatalog} :
        \A i, j \in DOMAIN list : i # j => list[i] # list[j]}

\* the catalog is loaded from list, then the filter runs for text
LoadAndFilter(list, text) ==
    LET symbols == SortSymbols(list)
    IN  /\ op' = [Did("filter") EXCEPT !.catalog = symbols, !.typed = text,
                      !.filtered = filter_symbols(symbols, text)]
        /\ UNCHANGED <<selector_vars, stale, window_vars>>

Next ==
    \/ \E topic \in Topics, value \in Values : Publish(topic, value)
    \/ \E env \in Fetches, balance \in BalanceResults : TimerTick(env, balance)

Spec == Init /\ [][Next]_vars

(***************************************************************************)
(* The account side: the exchange, the poll, the selection, the commands.  *)
(***************************************************************************)
Rows == DOMAIN positions_table

NextAccount ==
    \/ \E s \in Symbols, size \in SizeTexts \cup {NoPosition} :
           PositionsChange(s, size)
    \/ \E all_ok \in BOOLEAN, env \in Fetches, balance \in BalanceResults :
           PollTick(all_ok, env, balance)
    \/ \E row \in Rows, ok \in BOOLEAN : SelectPosition(row, ok)
    \/ \E response \in Responses : CloseButton(response)
    \/ \E row \in Rows, response \in Responses : CloseFromMenu(row, response)
    \/ \E row \in Rows, tp \in Levels, sl \in Levels,
          response \in Responses, strict \in BOOLEAN :
           EditPosition(row, tp, sl, response, strict)
    \/ \E row \in Rows : EditPositionCancelled(row)
    \/ \E ok \in BOOLEAN, accepted \in BOOLEAN, env \in Fetches :
           SlTpButton(ok, accepted, env)

SpecAccount == Init /\ [][NextAccount]_vars

(***************************************************************************)
(* What the last timer tick dispatched.                                    *)
(***************************************************************************)
IsFlush == op.name = "timer" /\ op.drained # <<>>
CallsFor(t) == {i \in DOMAIN op.calls : op.calls[i][1] = t}
Coalesced(t) == Lookup(op.updates, t)
Changed(t) == HasKey(op.updates, t) /\ Coalesced(t) # op.before[t]

\* C1: for every topic, the publishes buffered since the last tick whose
\* last value differs from the topic's snapshot lead to exactly one call of
\* the topic's handler in the flush, with that last value as its argument,
\* and to no call with an earlier value.
C1_CoalescedIntoOneCallWithLastValue ==
    IsFlush =>
        \A t \in Topics :
            Changed(t) =>
                /\ Cardinality(CallsFor(t)) = 1
                /\ \A i \in CallsFor(t) : op.calls[i][2] = Arg(Coalesced(t))

\* C2: a flush calls a topic's handler only for a coalesced value that
\* differs from the snapshot and from the value the handler was last called
\* for (publishing a value again causes no further call), and at most once.
C2_Step ==
    (op'.name = "timer" /\ op'.drained # <<>>) =>
        \A i \in DOMAIN op'.calls :
            LET t == op'.calls[i][1]
            IN  /\ Lookup(op'.updates, t) # last_data[t]
                /\ Lookup(op'.updates, t) # handed[t]
                /\ \A j \in DOMAIN op'.calls : op'.calls[j][1] = t => j = i

C2_NoCallForUnchangedValue == [][C2_Step]_vars

\* C3: in a flush with changed values for several topics every changed
\* topic's handler is called, whatever another handler did, and the flush
\* raises nothing to the timer.
C3_HandlerFailureIsolated ==
    IsFlush =>
        /\ ~op.raised
        /\ \A t \in Topics : Changed(t) => CallsFor(t) # {}

\* C4: after a flush in which a topic's handler raised, the topic's
\* snapshot holds the value that handler was called for.
C4_SnapshotSetWhenHandlerRaises ==
    (IsFlush /\ op.raised) =>
        LET t == op.calls[Len(op.calls)][1]
        IN  last_data[t] = Coalesced(t)

(***************************************************************************)
(* The position views and commands.                                        *)
(***************************************************************************)
IsZero(size) == Float(size) = 0
CloseOps == {"close_button", "close_menu"}
Rejected(response) ==
    \/ response.kind = "raise"
    \/ response.kind = "dict" /\ response.retCode \notin {0, NoCode}

\* C5: no position of size 0 is in the positions table, among the
\* positions handed to the chart, or selected.
C5_NoZeroSizeExposed ==
    /\ \A i \in DOMAIN positions_table : ~IsZero(positions_table[i].size)
    /\ \A i \in DOMAIN chart.positions : ~IsZero(chart.positions[i].size)
    /\ \A i \in DOMAIN selected_position : ~IsZero(selected_position[i].size)

\* C6: a close_position call for size 0 issues no remote call.
C6_ZeroSizeCloseRejected ==
    op.name \in CloseOps =>
        \A i \in DOMAIN op.requests : op.requests[i].size # 0

\* C7: a close_position call issues one remote call and shows one notice: on
\* retCode 0 the success notice, with both refresh flags set; otherwise the
\* failure notice, with the remote message when there is one, the flags as
\* they were.
C7_Step ==
    op'.name \in CloseOps =>
        LET r == op'.response
            n == op'.notices
        IN  /\ Len(op'.requests) = 1
            /\ Len(n) = 1
            /\ IF Succeeded(r)
               THEN /\ n[1].title = "Success"
                    /\ positions_update_needed' /\ orders_update_needed'
               ELSE /\ n[1].title = "Error"
                    /\ (r.kind # "empty" /\ r.retMsg # NoMsg) => n[1].text = r.retMsg
                    /\ UNCHANGED <<positions_update_needed, orders_update_needed>>

C7_CloseOnceAndReport == [][C7_Step]_vars

C7_Witness ==
    /\ op.name \in CloseOps
    /\ op.response.kind = "dict" /\ op.response.retCode = ErrCode
    /\ op.notices = <<Notice("Error", "insufficient balance")>>
    /\ ~positions_update_needed /\ ~orders_update_needed

\* C8: set_trading_stop is never called with neither takeProfit nor stopLoss.
C8_NoRequestWithoutLevels ==
    op.name = "edit_position" =>
        \A i \in DOMAIN op.requests :
            \/ "takeProfit" \in DOMAIN op.requests[i].params
            \/ "stopLoss" \in DOMAIN op.requests[i].params

\* a level the dialog returned is provided when it is a price
Provided(level) == level \in 1..MaxLevel

\* C9: the set_trading_stop request holds takeProfit exactly when a
\* take-profit was provided, as its text, and the same for stopLoss; a level
\* that was not provided is not in the request, as "0" or otherwise.
C9_OnlyProvidedLevelsSent ==
    op.name = "edit_position" =>
        \A i \in DOMAIN op.requests :
            LET params == op.requests[i].params
            IN  /\ "takeProfit" \in DOMAIN params <=> Provided(op.tp)
                /\ "stopLoss" \in DOMAIN params <=> Provided(op.sl)
                /\ Provided(op.tp) => params["takeProfit"] = ToString(op.tp)
                /\ Provided(op.sl) => params["stopLoss"] = ToString(op.sl)

C9_Witness ==
    /\ op.name = "edit_position"
    /\ op.tp = 0 /\ op.sl = 1
    /\ Len(op.requests) = 1
    /\ DOMAIN op.requests[1].params =
           {"category", "symbol", "positionIdx", "stopLoss"}

\* C10: an edit_position whose set_trading_stop was rejected leaves the
\* tables, the chart, the labels, the snapshot, the selection and the
\* refresh flags as they were.
C10_Step ==
    (op'.name = "edit_position" /\ op'.accepted /\ Rejected(op'.response)) =>
        UNCHANGED <<positions_table, orders_table, chart, price_label,
                    balance_label, last_data, has_selected, selected_position,
                    buttons_enabled, positions_update_needed,
                    orders_update_needed>>

C10_RejectionLeavesStateUntouched == [][C10_Step]_vars

\* the rejection came while the table was out of date: a refresh would show
C10_Witness ==
    /\ op.name = "edit_position" /\ op.accepted
    /\ op.response.kind = "dict" /\ op.response.retCode = ErrCode
    /\ positions_table # TableRows(get_positions)
    /\ selected_position # <<>>

(***************************************************************************)
(* The selector's filter alone, with time.                                 *)
(***************************************************************************)
NextFilter ==
    \/ \E text \in Texts : TypeText(text)
    \/ \E i \in DOMAIN combo_items : SelectItem(i)
    \/ \E d \in Delays : Elapse(d)
    \/ FilterTimeout

SpecFilter == Init /\ [][NextFilter]_vars

(***************************************************************************)
(* The stream, the selector and the dispatcher.                            *)
(***************************************************************************)
NextStream ==
    \/ \E text \in Texts : TypeText(text)
    \/ on_open
    \/ on_close
    \/ \E topic \in {"price", "balance"}, value \in Numbers : Publish(topic, value)
    \/ \E env \in Fetches : TimerTick(env, FetchFailed)

SpecStream == Init /\ [][NextStream]_vars

(***************************************************************************)
(* The orders side: the exchange, the poll, the order commands.            *)
(***************************************************************************)
OrderRowsShown == DOMAIN orders_table

NextOrders ==
    \/ \E s \in Symbols, size \in {"1", NoPosition} : PositionsChange(s, size)
    \/ \E s \in Symbols : OrderOpened(s)
    \/ \E id \in OrderIds : OrderClosed(id)
    \/ \E env \in Fetches : PollTick(TRUE, env, FetchFailed)
    \/ \E side \in {"Buy", "Sell"}, submitted \in BOOLEAN, response \in Responses :
           show_order_dialog(side, submitted, response)
    \/ \E row \in OrderRowsShown : OrderMenuCancel(row)
    \/ \E row \in OrderRowsShown, ok \in BOOLEAN, submitted \in BOOLEAN,
          response \in Responses :
           OrderMenuEdit(row, ok, submitted, response)
    \/ \E row \in Rows, legs \in LegSeqs, accepted \in BOOLEAN :
           MultipleTpFromMenu(row, legs, accepted)

SpecOrders == Init /\ [][NextOrders]_vars

(***************************************************************************)
(* Reporting, the stream and the symbol switch.                            *)
(***************************************************************************)
CommandOps == CloseOps \cup {"edit_position", "show_order_dialog", "edit_order",
                             "cancel_order", "show_multiple_tp_window"}
NonZero(response) == response.kind = "dict" /\ response.retCode \notin {0, NoCode}
Reported == \E i \in DOMAIN op.notices : op.notices[i].title = "Error"

\* C11: a command that received a response with a non-zero code has shown
\* the user a failure.
C11_NonZeroCodeReported ==
    (op.name \in CommandOps /\ NonZero(op.response)) => Reported

\* C12: when the connection opens, one subscribe message is sent, for the
\* active symbol (the one on_symbol_selected last took).
C12_SubscribeForActiveSymbol ==
    op.name = "on_open" =>
        /\ current_symbol # <<>>
        /\ op.sent = <<SubscribeMessage(current_symbol[1])>>

\* C13: a flush after a symbol switch neither calls a handler for, nor
\* writes into the snapshot, a topic whose only buffered updates were put on
\* the queue before the switch.
C13_StaleUpdatesDiscarded ==
    (IsFlush /\ op.stale > 0) =>
        LET old == Coalesce(SubSeq(op.drained, 1, op.stale), <<>>)
            fresh == Coalesce(SubSeq(op.drained, op.stale + 1, Len(op.drained)), <<>>)
        IN  \A t \in Topics :
                (HasKey(old, t) /\ ~HasKey(fresh, t)) =>
                    /\ CallsFor(t) = {}
                    /\ last_data[t] = op.before[t]

\* C14: a change of the selector to a non-empty symbol while the stream is
\* open sends the subscribe message for that symbol, draws the positions
\* and orders tables from the managers, and raises nothing.
C14_SwitchResubscribesAndRefreshes ==
    (op.name = "text_changed" /\ combo_text # "" /\ ws_open) =>
        /\ op.sent = <<SubscribeMessage(combo_text)>>
        /\ positions_table = TableRows(get_positions)
        /\ orders_table = OrderRows(get_orders)
        /\ ~op.raised

(***************************************************************************)
(* The poll cycle.                                                         *)
(***************************************************************************)
Failures(env, balance) ==
    (IF env.pos_ok THEN {} ELSE {"positions"})
    \cup (IF env.ord_ok THEN {} ELSE {"orders"})
    \cup (IF balance = FetchFailed THEN {"balance"} ELSE {})

Shown(balance) == [fmt |-> "2f", val |-> balance]

\* C15: in an update_ui cycle in which exactly one of the positions, orders
\* and balance fetches fails, the views of the two others are drawn from
\* what was fetched and the failed one's view stays as it was.
C15_Step ==
    \A env \in Fetches, balance \in BalanceResults :
        (PollTick(TRUE, env, balance) /\ Cardinality(Failures(env, balance)) = 1) =>
            /\ IF env.pos_ok THEN positions_table' = TableRows(get_positions)
               ELSE UNCHANGED positions_table
            /\ IF env.ord_ok THEN orders_table' = OrderRows(get_orders)
               ELSE UNCHANGED orders_table
            /\ IF balance # FetchFailed THEN balance_label' = Shown(balance)
               ELSE UNCHANGED balance_label

C15_FetchesIsolated == [][C15_Step]_vars

\* C16: after an update_ui cycle that fetched the balance the label shows
\* the fetched number, 0 included; after one whose balance fetch failed it
\* shows what it showed.
C16_Step ==
    \A env \in Fetches, balance \in BalanceResults :
        (PollTick(TRUE, env, balance) /\ env.pos_ok) =>
            /\ balance \in Numbers => balance_label'.val = balance
            /\ balance = FetchFailed => UNCHANGED balance_label

C16_BalanceShowsFetchedValue == [][C16_Step]_vars

(***************************************************************************)
(* The order commands.                                                     *)
(***************************************************************************)
Refreshed ==
    /\ positions_table = TableRows(get_positions)
    /\ orders_table = OrderRows(get_orders)

\* C17: a multiple take-profit of k legs makes k submissions and reports
\* every leg's outcome, with the message of a failed one; when a leg was
\* taken, the tables are drawn again and show its order, whatever the other
\* legs did.
C17_LegsReportedAndShown ==
    op.name = "show_multiple_tp_window" =>
        /\ Len(op.requests) = Len(op.legs)
        /\ Len(op.reports) = Len(op.legs)
        /\ \A i \in DOMAIN op.legs :
               /\ op.reports[i].ok = Succeeded(op.legs[i])
               /\ ~Succeeded(op.legs[i]) => op.reports[i].message = op.legs[i].retMsg
        /\ (\E i \in DOMAIN op.legs : Succeeded(op.legs[i])) =>
               /\ Refreshed
               /\ OpenIds \subseteq {orders_table[r].shows : r \in DOMAIN orders_table}

\* C18: after an order dialog that was accepted on a response of code 0 the
\* tables are drawn again and no failure is shown; otherwise the tables are
\* left as they were.
C18_Step ==
    op'.name \in {"show_order_dialog", "edit_order"} =>
        IF op'.accepted /\ Succeeded(op'.response)
        THEN /\ positions_table' = TableRows(get_positions)'
             /\ orders_table' = OrderRows(get_orders)'
             /\ \A i \in DOMAIN op'.notices : op'.notices[i].title # "Error"
        ELSE UNCHANGED <<positions_table, orders_table, chart>>

C18_RefreshOnSuccessOnly == [][C18_Step]_vars

\* C19: a cancel or edit chosen on a row of the orders table is issued with
\* the id of the order the row shows; a cancel sends one request with that
\* id, and after a successful one the order is not in the table.
C19_CommandCarriesRowsOrderId ==
    op.name \in {"cancel_order", "edit_order"} =>
        /\ op.order_id = orders_table[op.row].shows
        /\ \A i \in DOMAIN op.requests :
               op.requests[i].orderId = orders_table[op.row].shows
        /\ op.name = "cancel_order" =>
               /\ ~op.raised
               /\ Len(op.requests) = 1
               /\ Succeeded(op.response) =>
                      \A r \in DOMAIN orders_table :
                          orders_table[r].shows # op.order_id

(***************************************************************************)
(* The filter's quiet period.                                              *)
(***************************************************************************)
\* C20: the filter runs only when the quiet period has passed since the
\* line edit's text last changed, once, and with that text (upper-cased);
\* until it has run, the timer is pending with what is left of the period.
C20_Step ==
    /\ op'.name = "filter_symbols" =>
           /\ quiet = Interval
           /\ runs = 0
           /\ op'.search = Upper(combo_text)
    /\ runs' <= 1
    /\ runs' = 0 => filter_timer' = Interval - quiet'

C24_BalanceShownIsSnapshot ==
    balance_label.val = last_data["balance"]

(***************************************************************************)
(* The active symbol.                                                      *)
(***************************************************************************)
Catalog == {available_symbols[i] : i \in DOMAIN available_symbols}

\* C25: the active symbol, once set, is a symbol of the loaded catalog.
C25_ActiveSymbolInCatalog ==
    \A i \in DOMAIN current_symbol : current_symbol[i] \in Catalog

\* C26: a run of the filter leaves the active symbol as it was (the saved
\* symbol and the managers' symbol are set together with it, by
\* on_symbol_selected alone, to the same value).
C26_Step ==
    op'.name = "filter_symbols" => UNCHANGED current_symbol

C26_FilterKeepsActiveSymbol == [][C26_Step]_vars

(***************************************************************************)
(* The selected position.                                                  *)
(***************************************************************************)
\* the selected position is a row of the positions table as last drawn,
\* with the size the row shows
SelectionCurrent ==
    /\ has_selected /\ selected_position # <<>>
    /\ ~IsZero(selected_position[1].size)
    /\ \E r \in DOMAIN positions_table :
           /\ positions_table[r].symbol = selected_position[1].symbol
           /\ positions_table[r].size = selected_position[1].size

\* C27: while the position buttons are enabled the selected position is
\* open, of non-zero size, in the positions last drawn, with its current
\* size; a successful close leaves nothing selected and the buttons
\* disabled.
C27_Step ==
    /\ buttons_enabled' => SelectionCurrent'
    /\ (op'.name \in CloseOps /\ Succeeded(op'.response)) =>
           /\ selected_position' = <<>>
           /\ ~buttons_enabled'

C27_SelectionNeverStale == [][C27_Step]_vars

(***************************************************************************)
(* The filter over every catalog and text.                                 *)
(***************************************************************************)
NextCatalog ==
    \E list \in InstrumentLists, text \in Strings(MaxText) : LoadAndFilter(list, text)

SpecCatalog == Init /\ [][NextCatalog]_vars

\* C21: the filtered list is the catalog's symbols that contain the text
\* when case is ignored on both sides, in the catalog's order; the empty
\* text gives the whole catalog.
C21_FilterIgnoresCase ==
    op.name = "filter" =>
        /\ op.filtered =
               SelectSeq(op.catalog, LAMBDA symbol : IsIn(upper(op.typed), upper(symbol)))
        /\ op.typed = <<>> => op.filtered = op.catalog


(***************************************************************************)
(* Inbound stream messages.  A message is a text; a ticker message carries *)
(* one price between braces.  WebSocketManager.process_message parses it:  *)
(* a message that does not parse is logged and dropped, the price of one   *)
(* that does is handed to the dispatcher as an update of "price".          *)
(***************************************************************************)
FrameChars == {"{", "}", "0", "1"}
Frames == UNION {[1..k -> FrameChars] : k \in 0..MaxFrame}

Digit(c) == IF c = "1" THEN 1 ELSE 0

Parses(message) ==
    /\ Len(message) = 3
    /\ message[1] = "{"
    /\ message[2] \in {"0", "1"}
    /\ message[3] = "}"

process_message(queue, message) ==
    IF Parses(message)
    THEN [raised |-> FALSE, logged |-> <<>>,
          queue |-> Append(queue, <<<<"price", Digit(message[2])>>>>)]
    ELSE [raised |-> FALSE, logged |-> <<"malformed">>, queue |-> queue]

\* an on_message that leaves the message alone
on_message_unprocessed(queue, message) ==
    [raised |-> FALSE, logged |-> <<>>, queue |-> queue]

\* on_message hands the message to the manager, with no try of its own
on_message(queue, message) == process_message(queue, message)

\* the open connection delivers a message: on_message
OnMessage(message) ==
    LET r == on_message(update_queue, message)
    IN  /\ ws_open
        /\ Len(r.queue) <= MaxQueue
        /\ update_queue' = r.queue
        /\ op' = [Did("on_message") EXCEPT
                      !.message = message, !.raised = r.raised,
                      !.logged = r.logged,
                      !.after_dropped = (op.name = "on_message" /\ op.logged # <<>>)]
        /\ UNCHANGED <<selector_vars, stale, last_data, handed, price_label,
                       balance_label, pm_positions, om_orders, positions_table,
                       orders_table, chart, has_selected, selected_position,
                       buttons_enabled, positions_update_needed,
                       orders_update_needed>>

\* the connection fails: on_error logs it
on_error ==
    /\ ws_open
    /\ ws_open' = FALSE
    /\ op' = Did("on_error")
    /\ UNCHANGED <<window_vars, current_symbol, combo_text, combo_items,
                   combo_index, filter_timer, ws_connecting, quiet, runs,
                   stale>>

(***************************************************************************)
(* The manager's supervision.  The window starts the manager once and      *)
(* never stops it, so its target stays "should be connected"; the window's *)
(* own ws_timer is None and is never made a timer.  The manager's timer    *)
(* finds the stream disconnected and starts to connect; an attempt ends    *)
(* with the connection open, which is when the manager calls on_open.      *)
(***************************************************************************)
Disconnected == ~ws_open /\ ~ws_connecting

\* supervision that answers a close only
ReconnectAfterClose ==
    /\ Disconnected
    /\ op.name = "on_close"
    /\ ws_connecting' = TRUE
    /\ op' = [Did("reconnect") EXCEPT !.after_dropped = TRUE]
    /\ UNCHANGED <<window_vars, current_symbol, combo_text, combo_items,
                   combo_index, filter_timer, ws_open, quiet, runs, stale>>

Reconnect ==
    /\ Disconnected
    /\ ws_connecting' = TRUE
    /\ op' = [Did("reconnect") EXCEPT
                  !.after_dropped = (op.name \in {"on_close", "on_error"})]
    /\ UNCHANGED <<window_vars, current_symbol, combo_text, combo_items,
                   combo_index, filter_timer, ws_open, quiet, runs, stale>>

Established == ws_connecting /\ on_open

NextTransport ==
    \/ Established
    \/ on_close
    \/ on_error
    \/ Reconnect
    \/ \E message \in Frames : OnMessage(message)
    \/ \E env \in Fetches : TimerTick(env, FetchFailed)

SpecTransport == Init /\ [][NextTransport]_vars

\* the manager's timer keeps firing
SpecSupervised == SpecTransport /\ WF_vars(Reconnect)

\* C22: a malformed inbound message is logged and dropped: on_message
\* raises nothing, the connection state, the stored price and the buffered
\* updates stay as they were; a message that parses is processed, also
\* when the message before it was dropped.
C22_Step ==
    op'.name = "on_message" =>
        /\ ~op'.raised
        /\ ~Parses(op'.message) =>
               /\ op'.logged = <<"malformed">>
               /\ UNCHANGED <<ws_open, ws_connecting, last_data, price_label,
                              update_queue>>
        /\ Parses(op'.message) =>
               /\ update_queue' =
                      Append(update_queue, <<<<"price", Digit(op'.message[2])>>>>)
               /\ UNCHANGED <<ws_open, ws_connecting>>

StreamState ==
    IF ws_open THEN "Connected"
    ELSE IF ws_connecting THEN "Connecting" ELSE "Disconnected"

C23_Step ==
    \/ StreamState' = StreamState
    \/ StreamState = "Disconnected" /\ StreamState' = "Connecting"
    \/ StreamState = "Connecting" /\ StreamState' = "Connected"
    \/ StreamState = "Connected" /\ StreamState' = "Disconnected"

====
